---- MODULE Spec2Model ----
(***************************************************************************)
(* Binomial heap of binomial_heap.py.                                      *)
(*                                                                         *)
(* Objects live in two arenas: node (BinomialNode objects) and tree        *)
(* (BinomialTree objects).  An object's identity is its index in its arena;*)
(* a forest (the Python list BinomialHeap.heap) is a sequence of tree      *)
(* identities.  Identities carry no meaning beyond equality, so after each *)
(* operation the arenas are renumbered in traversal order and objects no   *)
(* variable can reach any more are dropped (Canon).                        *)
(***************************************************************************)
EXTENDS Integers, Sequences, FiniteSets, TLC

VARIABLES node, tree, heap, operands, last

vars == <<node, tree, heap, operands, last>>

\* ---------------------------------------------------------------- bounds
MaxKey == 3          \* keys of Spec are 1..MaxKey
MaxNodes == 4        \* Spec: most nodes held by the heap
DeepMaxKey == 2      \* keys of SpecDeep are 1..DeepMaxKey
DeepMaxNodes == 11   \* SpecDeep: most nodes held by the heap
MaxOther == 1        \* Spec: most nodes of the heap handed to union
DeepMaxOther == 3    \* SpecDeep: most nodes of the heap handed to union

DistinctMaxKey == 5  \* keys of SpecDistinct are 1..DistinctMaxKey
MidMaxKey == 2       \* keys of SpecMid are 1..MidMaxKey
MidMaxNodes == 7     \* SpecMid: most nodes held by the heap
UnionMaxKey == 2     \* keys of SpecUnion are 1..UnionMaxKey
UnionMaxNodes == 6   \* SpecUnion: most nodes held by the heap
UnionMaxOther == 3   \* SpecUnion: most nodes of the heap handed to union
LinkMaxKey == 2      \* keys of SpecLink are 1..LinkMaxKey
LinkMaxNodes == 8    \* SpecLink: most nodes held by the heap
LinkMaxOther == 4    \* SpecLink: most nodes of the tree handed to merge
InsMaxKey == 2       \* keys of SpecInsert are 1..InsMaxKey
InsMaxNodes == 8     \* SpecInsert: most nodes held by the heap

Keys == 1..MaxKey
DistinctKeys == 1..DistinctMaxKey
DeepKeys == 1..DeepMaxKey
MidKeys == 1..MidMaxKey
UnionKeys == 1..UnionMaxKey
LinkKeys == 1..LinkMaxKey
InsKeys == 1..InsMaxKey

\* ------------------------------------------------------------- constants
None == 0            \* Python None, as an object reference
NegInf == -1         \* -1.0*float("inf"): below every key a caller inserts

\* --------------------------------------------------------------- helpers
Range(s) == {s[i] : i \in 1..Len(s)}

Store == [node |-> node, tree |-> tree]

EmptyStore == [node |-> <<>>, tree |-> <<>>]

\* BinomialNode(key): a new node object; its identity is Len(S.node) + 1
BinomialNode(S, key) ==
    [S EXCEPT !.node = Append(@, [key |-> key, parent |-> None, childrens |-> <<>>])]

\* BinomialTree(degree, root): a new tree object; its identity is Len(S.tree) + 1
BinomialTree(S, degree, root) ==
    [S EXCEPT !.tree = Append(@, [degree |-> degree, root |-> root])]

\* ------------------------------------------------------------------ Node
add_child(S, self, child) ==
    [S EXCEPT !.node[child].parent = self,
              !.node[self].childrens = Append(@, child)]

\* faulty variant: swaps with the parent once and does not go on upwards
bubble_up_once(S, self) ==
    LET p == S.node[self].parent IN
    IF p # None /\ S.node[self].key < S.node[p].key
    THEN [S EXCEPT !.node[self].key = S.node[p].key,
                   !.node[p].key = S.node[self].key]
    ELSE S

\* faulty variant: leaves the decreased key where it is
bubble_up_none(S, self) == S

\* faulty variant: the parent takes the smaller key and the node keeps it too
RECURSIVE bubble_up_copy(_, _)
bubble_up_copy(S, self) ==
    LET p == S.node[self].parent IN
    IF p # None /\ S.node[self].key < S.node[p].key
    THEN bubble_up_copy([S EXCEPT !.node[p].key = S.node[self].key], p)
    ELSE S

RECURSIVE bubble_up(_, _)
bubble_up(S, self) ==
    LET p == S.node[self].parent IN
    IF p # None /\ S.node[self].key < S.node[p].key
    THEN bubble_up([S EXCEPT !.node[self].key = S.node[p].key,
                             !.node[p].key = S.node[self].key], p)
    ELSE S

\* ------------------------------------------------------------------ Tree
\* faulty variant: the degree of other is raised instead of that of self
merge_bump_other(S, self, other) ==
    LET sr == S.tree[self].root
        or == S.tree[other].root
    IN  IF sr = None
        THEN [S EXCEPT !.tree[self].root = or]
        ELSE IF S.node[sr].key <= S.node[or].key
             THEN [add_child(S, sr, or) EXCEPT !.tree[other].degree = @ + 1]
             ELSE [add_child(S, or, sr) EXCEPT !.tree[self].root = or,
                                               !.tree[other].degree = @ + 1]

\* faulty variant: on equal keys the root of other survives
merge_strict(S, self, other) ==
    LET sr == S.tree[self].root
        or == S.tree[other].root
    IN  IF sr = None
        THEN [S EXCEPT !.tree[self].root = or]
        ELSE IF S.node[sr].key < S.node[or].key
             THEN [add_child(S, sr, or) EXCEPT !.tree[self].degree = @ + 1]
             ELSE [add_child(S, or, sr) EXCEPT !.tree[self].root = or,
                                               !.tree[self].degree = @ + 1]

merge(S, self, other) ==
    LET sr == S.tree[self].root
        or == S.tree[other].root
    IN  IF sr = None
        THEN [S EXCEPT !.tree[self].root = or]
        ELSE IF S.node[sr].key <= S.node[or].key
             THEN [add_child(S, sr, or) EXCEPT !.tree[self].degree = @ + 1]
             ELSE [add_child(S, or, sr) EXCEPT !.tree[self].root = or,
                                               !.tree[self].degree = @ + 1]

\* list.sort(key=lambda tree: tree.degree): stable, ascending
InsertSorted(S, sorted, t) ==
    LET p == Cardinality({i \in 1..Len(sorted) :
                            S.tree[sorted[i]].degree <= S.tree[t].degree})
    IN  SubSeq(sorted, 1, p) \o <<t>> \o SubSeq(sorted, p + 1, Len(sorted))

RECURSIVE SortFrom(_, _, _, _)
SortFrom(S, h, i, acc) ==
    IF i > Len(h) THEN acc ELSE SortFrom(S, h, i + 1, InsertSorted(S, acc, h[i]))

SortByDegree(S, h) == SortFrom(S, h, 1, <<>>)

\* faulty variant: deletes the second tree of an equal pair without merging it
RECURSIVE MergePass_drop(_, _, _)
MergePass_drop(S, h, i) ==
    IF i < Len(h)
    THEN IF S.tree[h[i]].degree = S.tree[h[i + 1]].degree
         THEN MergePass_drop(S, SubSeq(h, 1, i) \o SubSeq(h, i + 2, Len(h)), i)
         ELSE MergePass_drop(S, h, i + 1)
    ELSE [S |-> S, heap |-> h]

\* faulty variant: i moves on after a merge as well
RECURSIVE MergePass_advance(_, _, _)
MergePass_advance(S, h, i) ==
    IF i < Len(h)
    THEN IF S.tree[h[i]].degree = S.tree[h[i + 1]].degree
         THEN MergePass_advance(merge(S, h[i], h[i + 1]),
                                SubSeq(h, 1, i) \o SubSeq(h, i + 2, Len(h)), i + 1)
         ELSE MergePass_advance(S, h, i + 1)
    ELSE [S |-> S, heap |-> h]

\* the while loop of union; i is the 1-based position of new_heap.heap[i]
RECURSIVE MergePass(_, _, _)
MergePass(S, h, i) ==
    IF i < Len(h)
    THEN IF S.tree[h[i]].degree = S.tree[h[i + 1]].degree
         THEN MergePass(merge(S, h[i], h[i + 1]),
                        SubSeq(h, 1, i) \o SubSeq(h, i + 2, Len(h)), i)
         ELSE MergePass(S, h, i + 1)
    ELSE [S |-> S, heap |-> h]

\* faulty variant: the forest is returned as the merge pass leaves it
union_no_final_sort(S, self, other) ==
    LET sorted == SortByDegree(S, self \o other)
        r == MergePass(S, sorted, 1)
    IN  [S |-> r.S, heap |-> r.heap]

union(S, self, other) ==
    LET sorted == SortByDegree(S, self \o other)
        r == MergePass(S, sorted, 1)
    IN  [S |-> r.S, heap |-> SortByDegree(r.S, r.heap)]

\* faulty variant: the degree counter starts at 1
RECURSIVE Explode_from_one(_, _, _, _)
Explode_from_one(S, ch, i, new_heap) ==
    IF i > Len(ch)
    THEN [S |-> S, heap |-> new_heap]
    ELSE LET S1 == [S EXCEPT !.node[ch[i]].parent = None]
             S2 == BinomialTree(S1, i, ch[i])
             u == union(S2, new_heap, <<Len(S2.tree)>>)
         IN  Explode_from_one(u.S, ch, i + 1, u.heap)

\* faulty variant: the children keep their parent reference
RECURSIVE Explode_keep_parent(_, _, _, _)
Explode_keep_parent(S, ch, i, new_heap) ==
    IF i > Len(ch)
    THEN [S |-> S, heap |-> new_heap]
    ELSE LET S2 == BinomialTree(S, i - 1, ch[i])
             u == union(S2, new_heap, <<Len(S2.tree)>>)
         IN  Explode_keep_parent(u.S, ch, i + 1, u.heap)

\* the for loop of BinomialTree.extract_min over self.root.childrens
RECURSIVE Explode(_, _, _, _)
Explode(S, ch, i, new_heap) ==
    IF i > Len(ch)
    THEN [S |-> S, heap |-> new_heap]
    ELSE LET S1 == [S EXCEPT !.node[ch[i]].parent = None]
             S2 == BinomialTree(S1, i - 1, ch[i])
             u == union(S2, new_heap, <<Len(S2.tree)>>)
         IN  Explode(u.S, ch, i + 1, u.heap)

tree_extract_min(S, self) ==
    LET min_node == S.tree[self].root
        e == Explode(S, S.node[min_node].childrens, 1, <<>>)
    IN  [min_node |-> min_node, S |-> e.S, heap |-> e.heap]

\* breadth-first search comparing by key (BinomialNode.__eq__)
RECURSIVE SearchQueue(_, _, _)
SearchQueue(S, queue, k) ==
    IF queue = <<>> THEN None
    ELSE LET node_to_test == Head(queue) IN
         IF S.node[node_to_test].key = k
         THEN node_to_test
         ELSE SearchQueue(S, Tail(queue) \o S.node[node_to_test].childrens, k)

tree_find_node(S, self, k) ==
    IF S.tree[self].root = None THEN None
    ELSE SearchQueue(S, <<S.tree[self].root>>, k)

\* ------------------------------------------------------------------ Heap
RECURSIVE FindFrom(_, _, _, _)
FindFrom(S, h, i, k) ==
    IF i > Len(h) THEN None
    ELSE LET f == tree_find_node(S, h[i], k) IN
         IF f # None THEN f ELSE FindFrom(S, h, i + 1, k)

find_node(S, h, k) == FindFrom(S, h, 1, k)

\* faulty variant: the comparison is turned around
RECURSIVE MinFrom_greater(_, _, _, _)
MinFrom_greater(S, h, i, m_tree) ==
    IF i > Len(h) THEN m_tree
    ELSE IF m_tree = None
            \/ S.node[S.tree[h[i]].root].key > S.node[S.tree[m_tree].root].key
         THEN MinFrom_greater(S, h, i + 1, h[i])
         ELSE MinFrom_greater(S, h, i + 1, m_tree)

RECURSIVE MinFrom(_, _, _, _)
MinFrom(S, h, i, m_tree) ==
    IF i > Len(h) THEN m_tree
    ELSE IF m_tree = None
            \/ S.node[S.tree[h[i]].root].key < S.node[S.tree[m_tree].root].key
         THEN MinFrom(S, h, i + 1, h[i])
         ELSE MinFrom(S, h, i + 1, m_tree)

min_tree(S, h) == MinFrom(S, h, 1, None)

\* list.remove(x): drops the first occurrence
ListRemove(h, x) ==
    LET i == CHOOSE j \in 1..Len(h) :
                 h[j] = x /\ \A l \in 1..(j - 1) : h[l] # x
    IN  SubSeq(h, 1, i - 1) \o SubSeq(h, i + 1, Len(h))

insert(S, h, key) ==
    LET S1 == BinomialNode(S, key)
        S2 == BinomialTree(S1, 0, Len(S1.node))
    IN  union(S2, h, <<Len(S2.tree)>>)

\* faulty variant: the minimum tree is not removed from the forest
extract_min_keep(S, h) ==
    LET m_tree == min_tree(S, h) IN
    IF m_tree = None
    THEN [ret |-> None, S |-> S, heap |-> h, err |-> FALSE]
    ELSE LET e == tree_extract_min(S, m_tree)
             u == union(e.S, h, e.heap)
         IN  [ret |-> e.min_node, S |-> u.S, heap |-> u.heap, err |-> FALSE]

\* faulty variant: no early return when min_tree gives None, so that
\* self.heap.remove(None) raises
extract_min_no_guard(S, h) ==
    LET m_tree == min_tree(S, h) IN
    IF m_tree = None
    THEN [ret |-> None, S |-> S, heap |-> h, err |-> TRUE]
    ELSE LET h1 == ListRemove(h, m_tree)
             e == tree_extract_min(S, m_tree)
             u == union(e.S, h1, e.heap)
         IN  [ret |-> e.min_node, S |-> u.S, heap |-> u.heap, err |-> FALSE]

extract_min(S, h) ==
    LET m_tree == min_tree(S, h) IN
    IF m_tree = None
    THEN [ret |-> None, S |-> S, heap |-> h, err |-> FALSE]
    ELSE LET h1 == ListRemove(h, m_tree)
             e == tree_extract_min(S, m_tree)
             u == union(e.S, h1, e.heap)
         IN  [ret |-> e.min_node, S |-> u.S, heap |-> u.heap, err |-> FALSE]

\* faulty variant: no early return when the key is not found, so that the
\* assertion reads the key of None and raises
decrease_key_no_guard(S, h, k, new_key) ==
    LET finded_node == find_node(S, h, k) IN
    IF finded_node = None
    THEN [S |-> S, err |-> TRUE, found |-> None]
    ELSE IF ~(new_key < S.node[finded_node].key)
         THEN [S |-> S, err |-> TRUE, found |-> finded_node]
         ELSE [S |-> bubble_up([S EXCEPT !.node[finded_node].key = new_key],
                               finded_node),
               err |-> FALSE, found |-> finded_node]

\* faulty variant: the new key is assigned and bubble_up is not called
decrease_key_no_bubble(S, h, k, new_key) ==
    LET finded_node == find_node(S, h, k) IN
    IF finded_node = None
    THEN [S |-> S, err |-> FALSE, found |-> None]
    ELSE IF ~(new_key < S.node[finded_node].key)
         THEN [S |-> S, err |-> TRUE, found |-> finded_node]
         ELSE [S |-> [S EXCEPT !.node[finded_node].key = new_key],
               err |-> FALSE, found |-> finded_node]

\* faulty variant: the key is assigned before the assertion is evaluated
decrease_key_assign_first(S, h, k, new_key) ==
    LET finded_node == find_node(S, h, k) IN
    IF finded_node = None
    THEN [S |-> S, err |-> FALSE, found |-> None]
    ELSE IF ~(new_key < S.node[finded_node].key)
         THEN [S |-> [S EXCEPT !.node[finded_node].key = new_key],
               err |-> TRUE, found |-> finded_node]
         ELSE [S |-> bubble_up([S EXCEPT !.node[finded_node].key = new_key],
                               finded_node),
               err |-> FALSE, found |-> finded_node]

decrease_key(S, h, k, new_key) ==
    LET finded_node == find_node(S, h, k) IN
    IF finded_node = None
    THEN [S |-> S, err |-> FALSE, found |-> None]
    ELSE IF ~(new_key < S.node[finded_node].key)
         THEN [S |-> S, err |-> TRUE, found |-> finded_node]
         ELSE [S |-> bubble_up([S EXCEPT !.node[finded_node].key = new_key],
                               finded_node),
               err |-> FALSE, found |-> finded_node]

\* faulty variant: returns None when the key is not found
delete_guarded(S, h, k) ==
    LET d == decrease_key(S, h, k, NegInf) IN
    IF d.err
    THEN [ret |-> None, S |-> d.S, heap |-> h, err |-> TRUE, found |-> d.found]
    ELSE IF d.found = None
         THEN [ret |-> None, S |-> S, heap |-> h, err |-> FALSE, found |-> None]
         ELSE LET e == extract_min(d.S, h) IN
              [ret |-> e.ret, S |-> e.S, heap |-> e.heap, err |-> e.err,
               found |-> d.found]

\* faulty variant: extracts the minimum without driving the key down first
delete_no_decrease(S, h, k) ==
    LET e == extract_min(S, h) IN
    [ret |-> e.ret, S |-> e.S, heap |-> e.heap, err |-> e.err,
     found |-> find_node(S, h, k)]

delete(S, h, k) ==
    LET d == decrease_key(S, h, k, NegInf) IN
    IF d.err
    THEN [ret |-> None, S |-> d.S, heap |-> h, err |-> TRUE, found |-> d.found]
    ELSE LET e == extract_min(d.S, h) IN
         [ret |-> e.ret, S |-> e.S, heap |-> e.heap, err |-> e.err, found |-> d.found]

\* a heap built as __main__ builds h1, h2, h4: inserts into an empty heap
RECURSIVE BuildFrom(_, _, _, _)
BuildFrom(S, h, ks, i) ==
    IF i > Len(ks) THEN [S |-> S, heap |-> h]
    ELSE LET r == insert(S, h, ks[i]) IN BuildFrom(r.S, r.heap, ks, i + 1)


\* ------------------------------------------------- object identities
\* first occurrences of s, in order
RECURSIVE Dedup(_, _)
Dedup(s, acc) ==
    IF s = <<>> THEN acc
    ELSE Dedup(Tail(s), IF Head(s) \in Range(acc) THEN acc ELSE Append(acc, Head(s)))

\* the node objects reachable from todo over childrens and parent references
RECURSIVE Visit(_, _, _)
Visit(S, todo, acc) ==
    IF todo = <<>> THEN acc
    ELSE LET n == Head(todo) IN
         IF n = None \/ n \in Range(acc)
         THEN Visit(S, Tail(todo), acc)
         ELSE Visit(S, S.node[n].childrens \o <<S.node[n].parent>> \o Tail(todo),
                    Append(acc, n))

IndexIn(s, x) == IF x = None THEN None ELSE CHOOSE i \in 1..Len(s) : s[i] = x

RenameSeq(order, s) == [j \in 1..Len(s) |-> IndexIn(order, s[j])]

IsIdentity(s) == \A i \in 1..Len(s) : s[i] = i

\* The live objects, renumbered in traversal order: the forest's trees and
\* their nodes first, then what only the operands of the last union, the
\* node found and the node returned still reference.
Canon(S, h, ops, found, ret) ==
    LET treeOrder == Dedup(h \o ops[1] \o ops[2], <<>>)
        roots == [i \in 1..Len(treeOrder) |-> S.tree[treeOrder[i]].root]
        nodeOrder == Visit(S, roots \o <<found, ret>>, <<>>)
    IN  IF IsIdentity(treeOrder) /\ IsIdentity(nodeOrder)
        THEN [node |-> SubSeq(S.node, 1, Len(nodeOrder)),
              tree |-> SubSeq(S.tree, 1, Len(treeOrder)),
              heap |-> h, operands |-> ops, found |-> found, ret |-> ret]
        ELSE
        [node |-> [i \in 1..Len(nodeOrder) |->
                     LET o == S.node[nodeOrder[i]] IN
                     [key |-> o.key,
                      parent |-> IndexIn(nodeOrder, o.parent),
                      childrens |-> RenameSeq(nodeOrder, o.childrens)]],
         tree |-> [i \in 1..Len(treeOrder) |->
                     LET o == S.tree[treeOrder[i]] IN
                     [degree |-> o.degree, root |-> IndexIn(nodeOrder, o.root)]],
         heap |-> RenameSeq(treeOrder, h),
         operands |-> <<RenameSeq(treeOrder, ops[1]), RenameSeq(treeOrder, ops[2])>>,
         found |-> IndexIn(nodeOrder, found),
         ret |-> IndexIn(nodeOrder, ret)]

\* ------------------------------------------------------- observations
\* the nodes below and including n, in preorder, each as often as it is listed
RECURSIVE SubtreeSeq(_, _)
RECURSIVE ChildrenSeq(_, _, _)
SubtreeSeq(S, n) == <<n>> \o ChildrenSeq(S, S.node[n].childrens, 1)
ChildrenSeq(S, ch, i) ==
    IF i > Len(ch) THEN <<>> ELSE SubtreeSeq(S, ch[i]) \o ChildrenSeq(S, ch, i + 1)

RECURSIVE ForestSeq(_, _, _)
ForestSeq(S, h, i) ==
    IF i > Len(h) THEN <<>>
    ELSE (IF S.tree[h[i]].root = None THEN <<>> ELSE SubtreeSeq(S, S.tree[h[i]].root))
         \o ForestSeq(S, h, i + 1)

HeapNodes == ForestSeq(Store, heap, 1)
Count == Len(HeapNodes)
KeyCount(k) == Cardinality({i \in 1..Count : node[HeapNodes[i]].key = k})

Degrees(S, h) == [i \in 1..Len(h) |-> S.tree[h[i]].degree]

\* where a node sits in its tree
PosOf(S, n) ==
    IF n = None THEN "none"
    ELSE IF S.node[n].parent = None THEN "root"
    ELSE IF S.node[n].childrens = <<>> THEN "leaf"
    ELSE "inner"

NoArg == None
NoOperands == <<<<>>, <<>>>>

\* What the last call was and what it gave back: op and its arguments k, nk;
\* err (an AssertionError was raised); found (the node the key search
\* located) and pos (where it sat before the call); ret (the node returned);
\* for union, the degrees of both forests before the call and the size of
\* the second one; for extract_min, after (the decrease_key that returned
\* immediately before it, if one did: its new key and the place of the node
\* it had found).
NoCall ==
    [op |-> "init", k |-> NoArg, nk |-> NoArg, err |-> FALSE, found |-> None,
     pos |-> "none", ret |-> None, bsize |-> 0, adegs |-> <<>>, bdegs |-> <<>>,
     after |-> [nk |-> NoArg, pos |-> "none"]]

\* ------------------------------------------------------------ actions
\* An AssertionError ends the run: nothing in the program catches it.
Running == ~last.err

Commit(S, h, ops, l) ==
    \E c \in {Canon(S, h, ops, l.found, l.ret)} :
    /\ node' = c.node
    /\ tree' = c.tree
    /\ heap' = c.heap
    /\ operands' = c.operands
    /\ last' = [l EXCEPT !.found = c.found, !.ret = c.ret]

Init ==
    /\ node = <<>>
    /\ tree = <<>>
    /\ heap = <<>>
    /\ operands = NoOperands
    /\ last = NoCall

\* h.insert(BinomialNode(k))
Insert(k, maxn) ==
    /\ Running
    /\ Count < maxn
    /\ \E r \in {insert(Store, heap, k)} :
       Commit(r.S, r.heap, NoOperands, [NoCall EXCEPT !.op = "insert", !.k = k])

\* h.insert(BinomialNode(k)) for a key the heap does not hold
InsertDistinct(k, maxn) ==
    /\ find_node(Store, heap, k) = None
    /\ Insert(k, maxn)

\* h.extract_min()
ExtractMin ==
    /\ Running
    /\ \E r \in {extract_min(Store, heap)} :
       Commit(r.S, r.heap, NoOperands,
              [NoCall EXCEPT !.op = "extract_min", !.ret = r.ret, !.err = r.err,
                             !.after = IF last.op = "decrease_key" /\ last.found # None
                                       THEN [nk |-> last.nk, pos |-> last.pos]
                                       ELSE @])

\* h.decrease_key(BinomialNode(k), nk)
DecreaseKey(k, nk) ==
    /\ Running
    /\ \E r \in {decrease_key(Store, heap, k, nk)} :
       Commit(r.S, heap, NoOperands,
              [NoCall EXCEPT !.op = "decrease_key", !.k = k, !.nk = nk,
                             !.err = r.err, !.found = r.found,
                             !.pos = PosOf(Store, r.found)])

\* h.decrease_key(BinomialNode(k), nk) for a new key the heap does not hold
DecreaseKeyDistinct(k, nk) ==
    /\ find_node(Store, heap, nk) = None
    /\ DecreaseKey(k, nk)

\* h.delete(BinomialNode(k))
Delete(k) ==
    /\ Running
    /\ \E r \in {delete(Store, heap, k)} :
       Commit(r.S, r.heap, NoOperands,
              [NoCall EXCEPT !.op = "delete", !.k = k, !.err = r.err,
                             !.found = r.found, !.pos = PosOf(Store, r.found),
                             !.ret = r.ret])

\* b = BinomialHeap(); for key in ks: b.insert(BinomialNode(key)); h = h.union(b)
Union(ks, maxn) ==
    /\ Running
    /\ Count + Len(ks) <= maxn
    /\ \E b \in {BuildFrom(Store, <<>>, ks, 1)} :
       \E u \in {union(b.S, heap, b.heap)} :
           Commit(u.S, u.heap, <<heap, b.heap>>,
                  [NoCall EXCEPT !.op = "union",
                                 !.bsize = Len(ForestSeq(b.S, b.heap, 1)),
                                 !.adegs = Degrees(b.S, heap),
                                 !.bdegs = Degrees(b.S, b.heap)])

\* b = BinomialHeap(); for key in ks: b.insert(BinomialNode(key));
\* h.heap[0].merge(b.heap[0]), for two forests of one tree each, of equal
\* degree.  last.ret and last.found are the roots of self and of other
\* before the call, operands the two tree objects.
Link(ks, maxn) ==
    /\ Running
    /\ Count + Len(ks) <= maxn
    /\ Len(heap) = 1
    /\ \E b \in {BuildFrom(Store, <<>>, ks, 1)} :
       /\ Len(b.heap) = 1
       /\ b.S.tree[heap[1]].degree = b.S.tree[b.heap[1]].degree
       /\ Commit(merge(b.S, heap[1], b.heap[1]), heap, <<heap, b.heap>>,
                 [NoCall EXCEPT !.op = "merge",
                                !.ret = b.S.tree[heap[1]].root,
                                !.found = b.S.tree[b.heap[1]].root,
                                !.bsize = Len(ForestSeq(b.S, b.heap, 1)),
                                !.adegs = Degrees(b.S, heap),
                                !.bdegs = Degrees(b.S, b.heap)])

KeySeqs(keys, maxo) == UNION {[1..n -> keys] : n \in 0..maxo}

\* every operation, few nodes
Next ==
    \/ \E k \in Keys : Insert(k, MaxNodes)
    \/ ExtractMin
    \/ \E k \in Keys, nk \in Keys : DecreaseKey(k, nk)
    \/ \E k \in Keys : Delete(k)
    \/ \E ks \in KeySeqs(Keys, MaxOther) : Union(ks, MaxNodes)

Spec == Init /\ [][Next]_vars

\* insert, extract_min, decrease_key and delete, fewer keys, forests of up
\* to three trees
NextMid ==
    \/ \E k \in MidKeys : Insert(k, MidMaxNodes)
    \/ ExtractMin
    \/ \E k \in MidKeys, nk \in MidKeys : DecreaseKey(k, nk)
    \/ \E k \in MidKeys : Delete(k)

SpecMid == Init /\ [][NextMid]_vars

\* every operation, two keys, heaps large enough to hold a tree of degree 3
NextDeep ==
    \/ \E k \in DeepKeys : Insert(k, DeepMaxNodes)
    \/ ExtractMin
    \/ \E k \in DeepKeys, nk \in DeepKeys : DecreaseKey(k, nk)
    \/ \E k \in DeepKeys : Delete(k)
    \/ \E ks \in KeySeqs(DeepKeys, DeepMaxOther) : Union(ks, DeepMaxNodes)

SpecDeep == Init /\ [][NextDeep]_vars

\* insert, extract_min and delete only, on the same large heaps
NextInsDel ==
    \/ \E k \in DeepKeys : Insert(k, DeepMaxNodes)
    \/ ExtractMin
    \/ \E k \in DeepKeys : Delete(k)

SpecInsDel == Init /\ [][NextInsDel]_vars

\* insert, extract_min, delete and union on forests of up to three trees
NextUnion ==
    \/ \E k \in UnionKeys : Insert(k, UnionMaxNodes)
    \/ ExtractMin
    \/ \E k \in UnionKeys : Delete(k)
    \/ \E ks \in KeySeqs(UnionKeys, UnionMaxOther) : Union(ks, UnionMaxNodes)

SpecUnion == Init /\ [][NextUnion]_vars

\* trees built by inserts and linked by BinomialTree.merge
NextLink ==
    \/ \E k \in LinkKeys : Insert(k, LinkMaxNodes)
    \/ ExtractMin
    \/ \E ks \in KeySeqs(LinkKeys, LinkMaxOther) : Link(ks, LinkMaxNodes)

SpecLink == Init /\ [][NextLink]_vars

\* inserts only
NextInsert == \E k \in InsKeys : Insert(k, InsMaxNodes)

SpecInsert == Init /\ [][NextInsert]_vars

\* heaps whose keys are pairwise distinct
NextDistinct ==
    \/ \E k \in DistinctKeys : InsertDistinct(k, DistinctMaxKey)
    \/ ExtractMin
    \/ \E k \in DistinctKeys, nk \in DistinctKeys : DecreaseKeyDistinct(k, nk)
    \/ \E k \in DistinctKeys : Delete(k)

SpecDistinct == Init /\ [][NextDistinct]_vars


\* ----------------------------------------------------- state predicates
NoDup(s) == \A i, j \in 1..Len(s) : i # j => s[i] # s[j]

\* no two trees of the forest have the same degree
UniqueDegrees == NoDup(Degrees(Store, heap))

KeyOf(n) == node[n].key

\* every node's key is at most the key of each of its descendants
HeapOrdered ==
    \A i \in 1..Len(HeapNodes) :
        LET below == SubtreeSeq(Store, HeapNodes[i]) IN
        \A j \in 1..Len(below) : KeyOf(HeapNodes[i]) <= KeyOf(below[j])

RECURSIVE Pow2(_)
Pow2(d) == IF d = 0 THEN 1 ELSE 2 * Pow2(d - 1)

\* n has d children and its i-th child (from 0) roots a binomial tree of degree i
RECURSIVE IsBinomial(_, _, _)
IsBinomial(S, n, d) ==
    /\ Len(S.node[n].childrens) = d
    /\ \A i \in 1..d : IsBinomial(S, S.node[n].childrens[i], i - 1)

\* the keys the forest holds, and how often it holds key k
KeySet == {KeyOf(HeapNodes[i]) : i \in 1..Len(HeapNodes)}

\* the nodes from n up to the root of its tree, over parent references
RECURSIVE PathToRoot(_, _)
PathToRoot(S, n) ==
    IF n = None THEN {} ELSE {n} \cup PathToRoot(S, S.node[n].parent)

\* the forest as the program sees it: the list, its tree objects, its nodes
View ==
    <<heap,
      [i \in 1..Len(heap) |-> tree[heap[i]]],
      [i \in 1..Len(HeapNodes) |-> <<HeapNodes[i], node[HeapNodes[i]]>>]>>

\* ------------------------------------------------------------- claims

\* C1: from an empty heap, after every insert, extract_min and delete no two
\* trees in self.heap have the same degree.
C1_DegreeUniqueness ==
    last.op \in {"init", "insert", "extract_min", "delete"} => UniqueDegrees

\* C2: when A and B each hold at most one tree per degree, A.union(B) holds
\* at most one tree per degree.
C2_UnionSinglePass ==
    (last.op = "union" /\ NoDup(last.adegs) /\ NoDup(last.bdegs)) => UniqueDegrees

\* C3: after every call of insert, extract_min, decrease_key, delete and
\* union, every node's key is at most the key of each of its descendants.
C3_HeapOrder == HeapOrdered

\* a decrease_key whose new key travelled up from a node below the root
C3_Witness ==
    /\ last.op = "decrease_key"
    /\ ~last.err
    /\ last.pos \in {"leaf", "inner"}
    /\ KeyOf(last.found) # last.nk

\* C4: every tree of the forest with recorded degree d has a root with
\* exactly d children, the i-th child roots a binomial subtree of degree i,
\* and the tree has exactly 2^d nodes.
C4_BinomialShape ==
    \A i \in 1..Len(heap) :
        LET t == tree[heap[i]] IN
        /\ t.root # None
        /\ IsBinomial(Store, t.root, t.degree)
        /\ Len(SubtreeSeq(Store, t.root)) = Pow2(t.degree)

\* an extract_min that took apart a tree of degree 2 or more, whose children
\* were merged back into the forest
C4_Witness ==
    /\ last.op = "extract_min"
    /\ last.ret # None
    /\ Len(node[last.ret].childrens) >= 2
    /\ Len(heap) < Len(node[last.ret].childrens) + 2
    /\ \E i \in 1..Len(heap) : tree[heap[i]].degree >= 2

\* C5: union(A, B) holds count(A) + count(B) nodes, insert adds exactly one
\* node, extract_min on a non-empty heap removes exactly one, and no node is
\* listed twice.
C5_SizeConservation ==
    [][last'.op \in {"insert", "union", "extract_min"} =>
         LET before == Len(HeapNodes)
             after == HeapNodes'
         IN  /\ last'.op = "insert" => Len(after) = before + 1
             /\ last'.op = "union" => Len(after) = before + last'.bsize
             /\ (last'.op = "extract_min" /\ heap # <<>>) => Len(after) = before - 1
             /\ Cardinality(Range(after)) = Len(after)]_vars

\* a union with a non-empty heap that merged trees
C5_Witness ==
    /\ last.op = "union"
    /\ last.bsize >= 1
    /\ Len(heap) < Len(last.adegs) + Len(last.bdegs)

\* C6: the key of the node extract_min returns is at most every key the heap
\* held immediately before the call.
C6_ExtractMinIsMinimum ==
    [][(last'.op = "extract_min" /\ heap # <<>>) =>
         /\ last'.ret # None
         /\ \A i \in 1..Len(HeapNodes) :
                node'[last'.ret].key <= KeyOf(HeapNodes[i])]_vars

\* an extract_min whose minimum was not in the first tree of the forest
C6_Witness ==
    /\ last.op = "extract_min"
    /\ last.ret # None
    /\ \E n \in KeySet : KeyOf(last.ret) < n
    /\ Len(node[last.ret].childrens) >= 1

\* the scenario of the source's __main__: keys 5,4,3,6,8,9, then extract_min
ScenarioH1 ==
    LET b == BuildFrom(EmptyStore, <<>>, <<5, 4, 3, 6, 8, 9>>, 1)
        e == extract_min(b.S, b.heap)
        left == ForestSeq(e.S, e.heap, 1)
    IN  /\ e.S.node[e.ret].key = 3
        /\ Len(left) = 5
        /\ {e.S.node[left[i]].key : i \in 1..Len(left)} = {4, 5, 6, 8, 9}

\* C7: the keys held after extract_min are the keys held before minus one
\* occurrence of the returned node's key, and the returned node is no longer
\* reachable from the forest.
C7_ExtractMinRemovesReturned ==
    [][(last'.op = "extract_min" /\ heap # <<>>) =>
         /\ last'.ret # None
         /\ \A k \in KeySet \cup KeySet' :
                KeyCount(k)' = KeyCount(k)
                               - (IF k = node'[last'.ret].key THEN 1 ELSE 0)
         /\ \A i \in 1..Len(HeapNodes') : HeapNodes'[i] # last'.ret
         /\ ScenarioH1]_vars

\* an extract_min that returned a key the heap still holds another copy of
C7_Witness ==
    /\ last.op = "extract_min"
    /\ last.ret # None
    /\ KeyOf(last.ret) \in KeySet
    /\ Len(node[last.ret].childrens) >= 1

\* C8: in a heap of pairwise distinct keys that holds x, after delete(x)
\* find_node(x) is none, the keys held are those held before minus x, the
\* heap is heap-ordered and holds one node less.
C8_DeleteEffect ==
    [][(/\ last'.op = "delete"
        /\ find_node(Store, heap, last'.k) # None
        /\ Cardinality(KeySet) = Count) =>
         /\ find_node(Store', heap', last'.k) = None
         /\ KeySet' = KeySet \ {last'.k}
         /\ HeapOrdered'
         /\ Count' = Count - 1]_vars

\* a delete of a key that sat in a node that was neither a root nor a leaf
C8_Witness ==
    /\ last.op = "delete"
    /\ last.pos = "inner"
    /\ Cardinality(KeySet) = Count

\* C9 as claimed: the node delete(x) returns is the node the key search
\* located, and that node is no longer reachable from the forest.
C9_ReturnsLocatedNode ==
    (last.op = "delete" /\ last.found # None) =>
        /\ last.ret = last.found
        /\ \A i \in 1..Len(HeapNodes) : HeapNodes[i] # last.found

\* C9 as amended: delete(x) returns the root of the tree in which the key
\* search located x; that root holds the key minus infinity and is no longer
\* reachable from the forest; it is the located node exactly when the located
\* node was the root of its tree, and otherwise the located node stays in the
\* forest with a finite key.
C9_ReturnsRootOfLocatedNode ==
    (last.op = "delete" /\ last.found # None) =>
        /\ last.ret # None
        /\ node[last.ret].parent = None
        /\ \E j \in 1..Len(SubtreeSeq(Store, last.ret)) :
               SubtreeSeq(Store, last.ret)[j] = last.found
        /\ KeyOf(last.ret) = NegInf
        /\ \A i \in 1..Len(HeapNodes) : HeapNodes[i] # last.ret
        /\ (last.ret = last.found) <=> (last.pos = "root")
        /\ last.pos # "root" =>
              /\ \E i \in 1..Len(HeapNodes) : HeapNodes[i] = last.found
              /\ KeyOf(last.found) # NegInf

\* a delete whose key search located a node below the root
C9_Witness ==
    /\ last.op = "delete"
    /\ last.pos \in {"leaf", "inner"}
    /\ last.ret # None

\* C10: when the key is found and new_key is not below the found node's key,
\* decrease_key raises and changes no key, link, degree or forest order.
C10_PreconditionFailsFast ==
    [][(/\ last'.op = "decrease_key"
        /\ find_node(Store, heap, last'.k) # None
        /\ ~(last'.nk < KeyOf(find_node(Store, heap, last'.k)))) =>
         /\ last'.err
         /\ View' = View]_vars

\* a decrease_key that raised on a node with a parent
C10_Witness ==
    /\ last.op = "decrease_key"
    /\ last.err
    /\ last.pos # "root"

\* C11: when no node of the forest holds the key searched for, decrease_key
\* returns without raising, whatever new_key is, and changes no key, link,
\* degree or forest order.
C11_AbsentTargetNoOp ==
    [][(/\ last'.op = "decrease_key"
        /\ find_node(Store, heap, last'.k) = None) =>
         /\ ~last'.err
         /\ last'.found = None
         /\ View' = View]_vars

\* a decrease_key for an absent key on a non-empty heap, with a new key that
\* is not below the keys held
C11_Witness ==
    /\ last.op = "decrease_key"
    /\ last.found = None
    /\ ~last.err
    /\ heap # <<>>
    /\ last.nk >= last.k
    /\ \E n \in KeySet : last.nk > n

\* C12: on an empty forest min_tree gives none, extract_min returns none
\* without raising and the forest is still empty, for a new heap and for one
\* emptied by extract_min alike.
C12_EmptyHeapQueries ==
    [][(last'.op = "extract_min" /\ heap = <<>>) =>
         /\ min_tree(Store, heap) = None
         /\ last'.ret = None
         /\ ~last'.err
         /\ heap' = <<>>
         /\ node' = <<>>
         /\ tree' = <<>>]_vars

\* an extract_min that found the forest empty
C12_Witness ==
    /\ last.op = "extract_min"
    /\ last.ret = None
    /\ ~last.err
    /\ heap = <<>>

\* C13: when decrease_key(x, k) has returned for a key x the heap held and k
\* is at most every key of the heap, the extract_min called next returns a
\* node whose key is k.
C13_DecreaseThenExtract ==
    [][(/\ last.op = "decrease_key"
        /\ ~last.err
        /\ last.found # None
        /\ \A i \in 1..Len(HeapNodes) : last.nk <= KeyOf(HeapNodes[i])
        /\ last'.op = "extract_min") =>
         /\ last'.ret # None
         /\ node'[last'.ret].key = last.nk]_vars

\* an extract_min right after a decrease_key that had found its key in a
\* node that was neither a root nor a leaf and gave it a key below all others
C13_Witness ==
    /\ last.op = "extract_min"
    /\ last.after.pos = "inner"
    /\ last.ret # None
    /\ KeyOf(last.ret) = last.after.nk
    /\ \A n \in KeySet : last.after.nk < n

\* C14: after every insert, union, extract_min and delete the forest is
\* sorted by non-decreasing tree degree.
C14_ForestSorted ==
    \A i \in 1..(Len(heap) - 1) :
        tree[heap[i]].degree <= tree[heap[i + 1]].degree

\* a union of two forests of degrees 0, 1 each, whose merge pass ends with
\* the tree of degree 2 in front of the one of degree 1
C14_Witness ==
    /\ last.op = "union"
    /\ last.adegs = <<0, 1>>
    /\ last.bdegs = <<0, 1>>
    /\ Degrees(Store, heap) = <<1, 2>>

\* C15: a decrease_key(x, k) that found x and did not raise leaves the forest
\* list, every tree's degree and root, and every node's parent and children
\* list as they were; only nodes on the path from the found node to its root
\* change their key, and the keys held are those held before with one x
\* replaced by k.
C15_DecreaseKeyFrame ==
    [][(last'.op = "decrease_key" /\ ~last'.err /\ last'.found # None) =>
         LET before == HeapNodes
             f == find_node(Store, heap, last'.k)
             path == PathToRoot(Store, f)
         IN  /\ last'.found = f
             /\ heap' = heap
             /\ \A i \in 1..Len(heap) : tree'[heap[i]] = tree[heap[i]]
             /\ HeapNodes' = before
             /\ \A i \in 1..Len(before) :
                    /\ node'[before[i]].parent = node[before[i]].parent
                    /\ node'[before[i]].childrens = node[before[i]].childrens
                    /\ before[i] \notin path =>
                           node'[before[i]].key = node[before[i]].key
             /\ \A k \in KeySet \cup {last'.nk} :
                    KeyCount(k)' = KeyCount(k)
                                   - (IF k = last'.k THEN 1 ELSE 0)
                                   + (IF k = last'.nk THEN 1 ELSE 0)]_vars

\* a decrease_key whose new key went up from a leaf and stopped at the
\* leaf's parent, below the root
C15_Witness ==
    /\ last.op = "decrease_key"
    /\ ~last.err
    /\ last.pos = "leaf"
    /\ KeyOf(last.found) # last.nk
    /\ KeyOf(node[last.found].parent) = last.nk
    /\ node[node[last.found].parent].parent # None

\* C16: self.merge(other) on two non-empty trees of equal degree d makes the
\* root with the larger key the last child of the other root, with its parent
\* reference set; on equal keys the root of self survives; self.root is the
\* surviving root, self.degree is d + 1 and other.degree is still d.
C16_BinomialLink ==
    last.op = "merge" =>
        LET self == operands[1][1]
            other == operands[2][1]
            d == last.adegs[1]
            winner == IF KeyOf(last.ret) <= KeyOf(last.found)
                      THEN last.ret ELSE last.found
            loser == IF winner = last.ret THEN last.found ELSE last.ret
        IN  /\ last.ret # last.found
            /\ tree[self].root = winner
            /\ tree[self].degree = d + 1
            /\ tree[other].degree = d
            /\ node[winner].parent = None
            /\ Len(node[winner].childrens) = d + 1
            /\ node[winner].childrens[d + 1] = loser
            /\ node[loser].parent = winner
            /\ Len(node[loser].childrens) = d

\* a merge of two trees of degree 1 or more whose roots hold the same key
C16_Witness ==
    /\ last.op = "merge"
    /\ last.adegs[1] >= 1
    /\ KeyOf(last.ret) = KeyOf(last.found)
    /\ tree[operands[1][1]].root = last.ret

\* bit i (from 0) of n
Bit(n, i) == (n \div Pow2(i)) % 2

\* C17: after n inserts into an empty heap and no other call, the forest
\* holds one tree of degree i for every bit i set in n and no other tree.
C17_BinaryRepresentation ==
    /\ \A i \in 1..Len(heap) : Bit(Count, tree[heap[i]].degree) = 1
    /\ \A i \in 0..Count : Bit(Count, i) = 1 =>
           Cardinality({j \in 1..Len(heap) : tree[heap[j]].degree = i}) = 1
    /\ \A i, j \in 1..Len(heap) :
           i # j => tree[heap[i]].degree # tree[heap[j]].degree

\* the eighth insert, whose singleton was carried through degrees 0, 1 and 2
C17_Witness ==
    /\ last.op = "insert"
    /\ Count = 8
    /\ Degrees(Store, heap) = <<3>>

\* C18: in every heap reached by insert, extract_min, decrease_key and
\* delete, the root of every tree has no parent, every node listed in the
\* children of a node n has parent n, no tree is listed twice and no node is
\* reached twice from the forest.
C18_LinkConsistency ==
    /\ \A i \in 1..Len(heap) :
           /\ tree[heap[i]].root # None
           /\ node[tree[heap[i]].root].parent = None
    /\ \A i \in 1..Len(HeapNodes) :
           \A j \in 1..Len(node[HeapNodes[i]].childrens) :
               node[node[HeapNodes[i]].childrens[j]].parent = HeapNodes[i]
    /\ Cardinality(Range(heap)) = Len(heap)
    /\ Cardinality(Range(HeapNodes)) = Len(HeapNodes)

\* an extract_min after which a child of the returned node, made a root by
\* the call, has been linked under another root again
C18_Witness ==
    /\ last.op = "extract_min"
    /\ last.ret # None
    /\ Len(node[last.ret].childrens) >= 2
    /\ \E j \in 1..Len(node[last.ret].childrens) :
           LET c == node[last.ret].childrens[j] IN
           /\ node[c].parent # None
           /\ node[c].parent # last.ret

\* C19: when no node holds key x, delete(x) does not raise and its
\* decrease_key changes nothing; on a non-empty heap the extract_min that
\* follows removes and returns the node at the root that min_tree selects,
\* whose key is the least of the heap and is not x, and the heap holds one
\* node less; on an empty heap delete(x) returns none.
C19_DeleteAbsentKey ==
    [][(last'.op = "delete" /\ find_node(Store, heap, last'.k) = None) =>
         /\ ~last'.err
         /\ last'.found = None
         /\ decrease_key(Store, heap, last'.k, NegInf).S = Store
         /\ IF heap = <<>>
            THEN last'.ret = None /\ heap' = <<>>
            ELSE /\ last'.ret # None
                 /\ node'[last'.ret].key = KeyOf(tree[min_tree(Store, heap)].root)
                 /\ node'[last'.ret].key # last'.k
                 /\ \A n \in KeySet : node'[last'.ret].key <= n
                 /\ \A i \in 1..Len(HeapNodes') : HeapNodes'[i] # last'.ret
                 /\ Count' = Count - 1
                 /\ \A k \in KeySet :
                        KeyCount(k)' = KeyCount(k)
                                       - (IF k = node'[last'.ret].key THEN 1 ELSE 0)]_vars

\* a delete of a key the heap does not hold, which took the minimum out of a
\* heap of several nodes
C19_Witness ==
    /\ last.op = "delete"
    /\ last.found = None
    /\ last.ret # None
    /\ ~last.err
    /\ Len(node[last.ret].childrens) >= 1
    /\ KeyOf(last.ret) # last.k

\* the trees A.heap and B.heap list after C = A.union(B), each with the
\* degree it had before the call
OperandTrees ==
    {<<operands[1][i], last.adegs[i]>> : i \in 1..Len(operands[1])}
    \cup {<<operands[2][i], last.bdegs[i]>> : i \in 1..Len(operands[2])}

\* C20 as claimed: after C = A.union(B) every tree listed in A.heap and in
\* B.heap still has the degree it had, a root without parent and exactly
\* 2^degree nodes in binomial shape, and A and B hold as many nodes as before.
C20_UnionKeepsOperands ==
    last.op = "union" =>
        /\ \A p \in OperandTrees :
               LET t == tree[p[1]] IN
               /\ t.degree = p[2]
               /\ t.root # None
               /\ node[t.root].parent = None
               /\ IsBinomial(Store, t.root, t.degree)
               /\ Len(SubtreeSeq(Store, t.root)) = Pow2(t.degree)
        /\ Len(ForestSeq(Store, operands[2], 1)) = last.bsize
        /\ Len(ForestSeq(Store, operands[1], 1)) = Count - last.bsize

\* C20 as amended: the heap returned by A.union(B) lists tree objects of A
\* and B, which the merges change in place.  A tree of an operand that the
\* result lists is a binomial tree with a parentless root whose degree is at
\* least what it was; a tree the result does not list keeps its degree field
\* while its root lies inside a tree of the result, under a parent or with
\* more children than that degree.  When no two trees of A and B have the
\* same degree, every tree of both is listed and has the degree it had.
C20_UnionSharesOperandTrees ==
    last.op = "union" =>
        /\ Range(heap) \subseteq {p[1] : p \in OperandTrees}
        /\ \A p \in OperandTrees :
               LET t == tree[p[1]] IN
               IF p[1] \in Range(heap)
               THEN /\ t.degree >= p[2]
                    /\ node[t.root].parent = None
                    /\ IsBinomial(Store, t.root, t.degree)
               ELSE /\ t.degree = p[2]
                    /\ t.root \in Range(HeapNodes)
                    /\ \/ node[t.root].parent # None
                       \/ Len(node[t.root].childrens) > t.degree
        /\ NoDup(last.adegs \o last.bdegs) =>
               \A p \in OperandTrees :
                   p[1] \in Range(heap) /\ tree[p[1]].degree = p[2]

\* a union in which a tree of A grew and a tree of B was linked under it
C20_Witness ==
    /\ last.op = "union"
    /\ \E i \in 1..Len(operands[1]) :
           /\ operands[1][i] \in Range(heap)
           /\ tree[operands[1][i]].degree > last.adegs[i]
    /\ \E i \in 1..Len(operands[2]) :
           /\ operands[2][i] \notin Range(heap)
           /\ node[tree[operands[2][i]].root].parent # None

====
